---- MODULE Spec2Model ----
(***************************************************************************)
(* Rule-matching engine of backend/services/matcher.py: a business profile *)
(* (backend/models.py, BusinessInput) is matched against a catalog of      *)
(* requirement rules; every rule whose conditions hold is returned with    *)
(* its reasons, sorted by priority, category and title.                    *)
(*                                                                         *)
(* JSON values are modelled as tagged records, Python dictionaries as      *)
(* functions whose DOMAIN is the set of keys present, Python lists as      *)
(* sequences.  Display strings (title, category, description) are          *)
(* sequences of one-character strings, so that strip() and the             *)
(* lexicographic order of str are computed, not assumed.  Hebrew text of   *)
(* the source is written in ASCII here; each such string carries the       *)
(* original in a comment.                                                  *)
(***************************************************************************)
EXTENDS Integers, Sequences, FiniteSets, TLC

VARIABLES request, business, rules, pc, matched, error, invalid, seed, calls,
          report

vars == <<request, business, rules, pc, matched, error, invalid, seed, calls,
         report>>

-----------------------------------------------------------------------------
(* Bounds of the model.                                                    *)

\* seats, area_sqm, staff_count and the numeric thresholds range over 0..MaxCount
MaxCount == 2

\* the catalogs of Spec hold at most MaxRules rules
MaxRules == 2

\* the feature lists of SpecFeatures hold at most MaxFeatures tags
MaxFeatures == 3

-----------------------------------------------------------------------------
(* JSON values and dictionaries.                                           *)

None == [t |-> "null"]
JInt(n) == [t |-> "int", n |-> n]
JList(l) == [t |-> "list", l |-> l]

\* dict.get(k): the value under k, None when the key is missing
Get(d, k) == IF k \in DOMAIN d THEN d[k] ELSE None

\* dict.get(k, default)
GetOr(d, k, default) == IF k \in DOMAIN d THEN d[k] ELSE default

\* a slip: the collection keys tested with "is not None", as the numeric ones
TruthyNotNone(v) == v.t # "null"

\* truth value of a JSON value in a Python condition
Truthy(v) ==
    CASE v.t = "null" -> FALSE
      [] v.t = "int"  -> v.n # 0
      [] v.t = "list" -> v.l # <<>>

\* set(list)
SetOf(l) == {l[i] : i \in DOMAIN l}

\* the empty dictionary {}
EmptyDict == <<>>

-----------------------------------------------------------------------------
(* Strings.                                                                *)

\* code point of a character; "HE" stands for a Hebrew letter (U+05D0..U+05EA)
Ord(c) ==
    CASE c = " " -> 32
      [] c = "(" -> 40
      [] c = ")" -> 41
      [] c = "A" -> 65
      [] c = "B" -> 66
      [] c = "a" -> 97
      [] c = "b" -> 98
      [] c = "HE" -> 1500

\* str.strip(): surrounding whitespace removed
RECURSIVE LStrip(_)
LStrip(s) == IF s # <<>> /\ Head(s) = " " THEN LStrip(Tail(s)) ELSE s

RECURSIVE RStrip(_)
RStrip(s) ==
    IF s # <<>> /\ s[Len(s)] = " " THEN RStrip(SubSeq(s, 1, Len(s) - 1)) ELSE s

Strip(s) == RStrip(LStrip(s))

\* a < b for str: lexicographic by code point, a proper prefix is smaller
RECURSIVE StrLess(_, _)
StrLess(a, b) ==
    IF b = <<>> THEN FALSE
    ELSE IF a = <<>> THEN TRUE
    ELSE IF Ord(Head(a)) # Ord(Head(b)) THEN Ord(Head(a)) < Ord(Head(b))
    ELSE StrLess(Tail(a), Tail(b))

\* decimal rendering of a non-negative int in an f-string
Digit(d) ==
    CASE d = 0 -> "0" [] d = 1 -> "1" [] d = 2 -> "2" [] d = 3 -> "3"
      [] d = 4 -> "4" [] d = 5 -> "5" [] d = 6 -> "6" [] d = 7 -> "7"
      [] d = 8 -> "8" [] d = 9 -> "9"

RECURSIVE Str(_)
Str(n) == IF n < 10 THEN Digit(n) ELSE Str(n \div 10) \o Digit(n % 10)

-----------------------------------------------------------------------------
(* Feature vocabulary and names.                                           *)

\* models.py ALLOWED_FEATURES
ALLOWED_FEATURES ==
    {"gas", "meat", "delivery", "alcohol", "outdoor", "music", "smoking",
     "kitchen_hot", "kitchen_cold", "dairy", "fish", "vegan", "night",
     "takeaway", "grease_trap", "hood_vent", "fire_ext", "sprinkler",
     "handwash", "refrigeration", "freezer", "allergen_note", "accessibility",
     "signage", "pest_control", "waste_sep", "gas_cert"}

\* matcher.py FEATURE_NAMES: identifier -> Hebrew display name.  The Hebrew
\* names are written as "he:<transliteration>"; none of them contains the
\* identifier it stands for.
FEATURE_NAMES ==
    [f \in ALLOWED_FEATURES |->
        CASE f = "gas"           -> "he:gaz"
          [] f = "meat"          -> "he:basar"
          [] f = "delivery"      -> "he:mishlochim"
          [] f = "alcohol"       -> "he:hagashat alkohol"
          [] f = "outdoor"       -> "he:mekomot yeshiva chitzoniyim"
          [] f = "music"         -> "he:musika/bidur"
          [] f = "smoking"       -> "he:ezor ishun"
          [] f = "kitchen_hot"   -> "he:mitbach cham"
          [] f = "kitchen_cold"  -> "he:mitbach kar bilvad"
          [] f = "dairy"         -> "he:mazon chalavi"
          [] f = "fish"          -> "he:mazon dagim"
          [] f = "vegan"         -> "he:tivoni"
          [] f = "night"         -> "he:patuach acharei chatzot"
          [] f = "takeaway"      -> "he:isuf atzmi"
          [] f = "grease_trap"   -> "he:malkodet shuman"
          [] f = "hood_vent"     -> "he:menadef"
          [] f = "fire_ext"      -> "he:matfei kibui"
          [] f = "sprinkler"     -> "he:maarechet matazim"
          [] f = "handwash"      -> "he:amadot shtifat yadayim"
          [] f = "refrigeration" -> "he:kerur mischari"
          [] f = "freezer"       -> "he:makpi"
          [] f = "allergen_note" -> "he:hatzharat alergenim"
          [] f = "accessibility" -> "he:negishut"
          [] f = "signage"       -> "he:rishayon veshilut"
          [] f = "pest_control"  -> "he:hadbara tkufatit"
          [] f = "waste_sep"     -> "he:hafradat psolet"
          [] f = "gas_cert"      -> "he:bdikat gaz betokef"]

\* FEATURE_NAMES.get(feature, feature)
FeatureName(feature) ==
    IF feature \in DOMAIN FEATURE_NAMES THEN FEATURE_NAMES[feature] ELSE feature

\* get_feature_names(features)
get_feature_names(features) ==
    [i \in DOMAIN features |-> FeatureName(features[i])]

\* The identifiers the model uses, in the order of Python's str comparison
\* (code points: upper case before lower case, "_" before letters).
IdentifierOrder ==
    <<"Gas", "accessibility", "alcohol", "allergen_note", "dairy", "delivery",
      "fire_ext", "fish", "freezer", "gas", "gas_cert", "grease_trap",
      "handwash", "hood_vent", "kitchen_cold", "kitchen_hot", "meat", "music",
      "night", "outdoor", "pest_control", "refrigeration", "signage",
      "smoking", "sprinkler", "takeaway", "vegan", "waste_sep">>

IdentifierRank(s) == CHOOSE i \in DOMAIN IdentifierOrder : IdentifierOrder[i] = s

\* The order in which a set of str is iterated follows the hashes of its
\* elements, which differ from one interpreter process to the next: seed
\* holds, for every call made so far, the order its process gives the
\* identifiers, the last entry being that of the current call.
\* Specifications with a single call start it under ReversedOrder, the
\* order that sorted() has to undo completely; SpecTwice runs both orders.
HashOrder == seed[Len(seed)]

ReversedOrder ==
    [i \in DOMAIN IdentifierOrder |-> IdentifierOrder[Len(IdentifierOrder) + 1 - i]]

\* two iteration orders that disagree on every pair of identifiers
Seeds == {IdentifierOrder, ReversedOrder}

\* list(S) for a set S of identifiers
RECURSIVE ListFrom(_, _, _)
ListFrom(S, l, i) ==
    IF i > Len(l) THEN <<>>
    ELSE IF l[i] \in S THEN <<l[i]>> \o ListFrom(S, l, i + 1)
    ELSE ListFrom(S, l, i + 1)

ListOfSet(S) == IF S = {} THEN <<>> ELSE ListFrom(S, HashOrder, 1)

RECURSIVE InsertIdentifier(_, _)
InsertIdentifier(l, x) ==
    IF l = <<>> THEN <<x>>
    ELSE IF IdentifierRank(x) <= IdentifierRank(Head(l)) THEN <<x>> \o l
    ELSE <<Head(l)>> \o InsertIdentifier(Tail(l), x)

\* the variant that leaves the list as it is
Unsorted(l) == l

\* sorted(l) for a list of identifiers
RECURSIVE Sorted(_)
Sorted(l) == IF l = <<>> THEN <<>> ELSE InsertIdentifier(Sorted(Tail(l)), Head(l))

\* a slip: list(set) returned as the hash order gives it, not sorted
HashOrderList(S) == ListOfSet(S)

\* sorted(list(S)) for a set S of identifiers
SortedList(S) == Sorted(ListOfSet(S))

-----------------------------------------------------------------------------
(* The condition evaluator: the body of the loop of                        *)
(* _match_requirements_generator.  An accumulator carries the lists        *)
(* `checks` and `reasons` and the exception raised so far ("" for none).   *)
(* A reason is the sequence of the pieces its f-string is made of.         *)

NoError == ""

EmptyAcc == [error |-> NoError, checks |-> <<>>, reasons |-> <<>>]

Raise(acc, kind) == IF acc.error = NoError THEN [acc EXCEPT !.error = kind] ELSE acc

\* a slip: the check is recorded and its reason is not
CheckDropsReasons(acc, ok, okReasons) == [acc EXCEPT !.checks = Append(@, ok)]

\* checks.append(ok); if ok: reasons.append(reason)
Check(acc, ok, okReasons) ==
    [acc EXCEPT !.checks = Append(@, ok),
                !.reasons = IF ok THEN @ \o okReasons ELSE @]

\* "min" in k
IsMinKey(k) == k \in {"min_seats", "min_area_sqm", "min_staff"}

\* the sign of the reason: U+2265 for a min key, U+2264 for a max key
SignOf(k) == IF IsMinKey(k) THEN ">=" ELSE "<="

\* a slip: the size compared with the first declared size only
SizeStepFirstOnly(acc, b, cond) ==
    IF acc.error # NoError THEN acc
    ELSE IF ~Truthy(Get(cond, "size_any")) THEN acc
    ELSE LET ok == b.size = cond["size_any"].l[1]
         IN  IF ok THEN [acc EXCEPT !.checks = Append(@, ok),
                                    !.reasons = Append(@, <<"he:sug haesek '", b.size,
                                                           "' he:nichlal b-", "size_any">>)]
             ELSE [acc EXCEPT !.checks = Append(@, ok)]

\* lines 67-72: size_any.  The reason is
\* "<he: business type> '{size}' <he: is included in>-size_any".
SizeStep(acc, b, cond) ==
    IF acc.error # NoError THEN acc
    ELSE IF ~Truthy(Get(cond, "size_any")) THEN acc
    ELSE LET ok == b.size \in SetOf(cond["size_any"].l)
         IN  Check(acc, ok, <<(<<"he:sug haesek '", b.size, "' he:nichlal b-", "size_any">>)>>)

\* a slip: strict comparisons, the boundary value excluded
NumStepStrict(acc, field, prefix, k, cond) ==
    LET val == Get(cond, k) IN
    IF acc.error # NoError THEN acc
    ELSE IF val.t = "null" THEN acc
    ELSE IF field.t = "null" THEN Raise(acc, "TypeError")
    ELSE LET ok == IF IsMinKey(k) THEN field.n > val.n ELSE field.n < val.n
         IN  IF ok THEN [acc EXCEPT !.checks = Append(@, ok),
                                    !.reasons = Append(@, prefix \o <<Str(field.n), SignOf(k),
                                                                       Str(val.n), " => ", k>>)]
             ELSE [acc EXCEPT !.checks = Append(@, ok)]

\* a slip: "if val:" in place of "if val is not None:", the threshold 0 skipped
NumStepTruthy(acc, field, prefix, k, cond) ==
    LET val == Get(cond, k) IN
    IF acc.error # NoError THEN acc
    ELSE IF ~Truthy(val) THEN acc
    ELSE IF field.t = "null" THEN Raise(acc, "TypeError")
    ELSE LET ok == IF IsMinKey(k) THEN field.n >= val.n ELSE field.n <= val.n
         IN  IF ok THEN [acc EXCEPT !.checks = Append(@, ok),
                                    !.reasons = Append(@, prefix \o <<Str(field.n), SignOf(k),
                                                                       Str(val.n), " => ", k>>)]
             ELSE [acc EXCEPT !.checks = Append(@, ok)]

\* one pass of the loops of lines 75-99: compare a field of the business with
\* the threshold under key k; `prefix` is the text before the value.
NumStep(acc, field, prefix, k, cond) ==
    LET val == Get(cond, k) IN
    IF acc.error # NoError THEN acc
    ELSE IF val.t = "null" THEN acc
    ELSE IF field.t = "null" THEN Raise(acc, "TypeError")
    ELSE LET ok == IF IsMinKey(k) THEN field.n >= val.n ELSE field.n <= val.n
         IN  Check(acc, ok,
                   <<prefix \o <<Str(field.n), SignOf(k), Str(val.n), " => ", k>>>>)

\* lines 74-81: seats
SeatsSteps(acc, b, cond) ==
    NumStep(NumStep(acc, JInt(b.seats), <<>>, "min_seats", cond),
            JInt(b.seats), <<>>, "max_seats", cond)

\* lines 83-90: area; the reason starts with "<he: area> "
AreaSteps(acc, b, cond) ==
    NumStep(NumStep(acc, b.area_sqm, <<"he:shetach ">>, "min_area_sqm", cond),
            b.area_sqm, <<"he:shetach ">>, "max_area_sqm", cond)

\* lines 92-99: staff; the reason starts with "<he: staff> "
StaffSteps(acc, b, cond) ==
    NumStep(NumStep(acc, b.staff_count, <<"he:tzevet ">>, "min_staff", cond),
            b.staff_count, <<"he:tzevet ">>, "max_staff", cond)

\* set(cond.get(k, [])) raises TypeError when the value is null
FeatureSetRaises(cond, k) == GetOr(cond, k, JList(<<>>)).t # "list"

FeatureSet(cond, k) == SetOf(GetOr(cond, k, JList(<<>>)).l)

\* one reason per feature of the sorted list, each "<text> : <Hebrew name>"
FeatureReasons(text, S) ==
    LET names == get_feature_names(SortedList(S))
    IN  [i \in DOMAIN names |-> <<text, names[i]>>]

\* lines 107-114: features_any; text "<he: feature detected> : "
AnyStep(acc, bset, fa) ==
    IF fa = {} THEN acc
    ELSE LET ok == (bset \cap fa) # {}
         IN  Check(acc, ok, FeatureReasons("he:meafyen zuha : ", bset \cap fa))

\* a slip: features_all satisfied by any one of the required features
AllStepAsAny(acc, bset, fall) ==
    IF fall = {} THEN acc
    ELSE IF (bset \cap fall) # {}
         THEN [acc EXCEPT !.checks = Append(@, TRUE),
                          !.reasons = @ \o FeatureReasons("he:meafyen nidrash : ", fall)]
         ELSE [acc EXCEPT !.checks = Append(@, FALSE)]

\* lines 116-123: features_all; text "<he: required feature> : "
AllStep(acc, bset, fall) ==
    IF fall = {} THEN acc
    ELSE LET ok == fall \subseteq bset
         IN  Check(acc, ok, FeatureReasons("he:meafyen nidrash : ", fall))

\* lines 125-132: features_none; text "<he: forbidden feature absent> : "
NoneStep(acc, bset, fnone) ==
    IF fnone = {} THEN acc
    ELSE LET ok == (bset \cap fnone) = {}
         IN  Check(acc, ok, FeatureReasons("he:meafyen asur lo kayam : ", fnone))

\* line 140: the reason of a general rule, "<he: general> - <he: no conditions>"
GeneralReason == <<"he:klali - lelo tnaim">>

\* a slip: the general rule matches and its reason is not appended
GeneralStepWithoutReason(acc, cond, fa, fall, fnone) ==
    IF \/ Truthy(Get(cond, "size_any"))
       \/ \E k \in {"min_seats", "max_seats", "min_area_sqm", "max_area_sqm",
                     "min_staff", "max_staff"} : Get(cond, k).t # "null"
       \/ fa # {} \/ fall # {} \/ fnone # {}
    THEN acc
    ELSE [acc EXCEPT !.checks = Append(@, TRUE)]

\* the variant that takes a rule for general when its object has no key
GeneralStepIfNoKey(acc, cond, fa, fall, fnone) ==
    IF DOMAIN cond # {} THEN acc ELSE Check(acc, TRUE, <<GeneralReason>>)

\* lines 134-140: no condition at all -> general rule
GeneralStep(acc, cond, fa, fall, fnone) ==
    IF \/ Truthy(Get(cond, "size_any"))
       \/ Get(cond, "min_seats").t # "null"
       \/ Get(cond, "max_seats").t # "null"
       \/ Get(cond, "min_area_sqm").t # "null"
       \/ Get(cond, "max_area_sqm").t # "null"
       \/ Get(cond, "min_staff").t # "null"
       \/ Get(cond, "max_staff").t # "null"
       \/ fa # {} \/ fall # {} \/ fnone # {}
    THEN acc
    ELSE Check(acc, TRUE, <<GeneralReason>>)

\* the variant that looks at the first feature of the profile only
FeatureStepsFirstFeature(acc, b, cond) ==
    IF acc.error # NoError THEN acc
    ELSE IF \/ FeatureSetRaises(cond, "features_any")
            \/ FeatureSetRaises(cond, "features_all")
            \/ FeatureSetRaises(cond, "features_none")
         THEN Raise(acc, "TypeError")
    ELSE LET fa    == FeatureSet(cond, "features_any")
             fall  == FeatureSet(cond, "features_all")
             fnone == FeatureSet(cond, "features_none")
             bset  == IF b.features = <<>> THEN {} ELSE {b.features[1]}
         IN  GeneralStep(
                 NoneStep(AllStep(AnyStep(acc, bset, fa), bset, fall), bset, fnone),
                 cond, fa, fall, fnone)

\* lines 101-140: the three feature sets, then the general-rule fallback
FeatureSteps(acc, b, cond) ==
    IF acc.error # NoError THEN acc
    ELSE IF \/ FeatureSetRaises(cond, "features_any")
            \/ FeatureSetRaises(cond, "features_all")
            \/ FeatureSetRaises(cond, "features_none")
         THEN Raise(acc, "TypeError")
    ELSE LET fa    == FeatureSet(cond, "features_any")
             fall  == FeatureSet(cond, "features_all")
             fnone == FeatureSet(cond, "features_none")
             bset  == SetOf(b.features)
         IN  GeneralStep(
                 NoneStep(AllStep(AnyStep(acc, bset, fa), bset, fall), bset, fnone),
                 cond, fa, fall, fnone)

\* the variant that compares the area before the seats
EvaluateAreaFirst(b, cond) ==
    FeatureSteps(StaffSteps(SeatsSteps(AreaSteps(SizeStep(EmptyAcc, b, cond),
                                                 b, cond), b, cond), b, cond),
                 b, cond)

\* lines 63-140: checks and reasons of one rule's condition object
Evaluate(b, cond) ==
    FeatureSteps(StaffSteps(AreaSteps(SeatsSteps(SizeStep(EmptyAcc, b, cond),
                                                 b, cond), b, cond), b, cond),
                 b, cond)

\* the variant with any(checks)
AnyTrue(checks) == \E i \in DOMAIN checks : checks[i]

\* all(checks)
AllTrue(checks) == \A i \in DOMAIN checks : checks[i]

-----------------------------------------------------------------------------
(* The matcher.  A rule is a dictionary: a function from the fields present *)
(* ("id", "title", "category", "description", "priority", "conditions") to  *)
(* their values.                                                            *)

\* line 146: the title of a rule without one, "(<he: no title>)"
NoTitle == <<"(", "HE", ")">>

\* the variant that copies the title as it is written in the catalog
MatchItemRawTitle(r, reasons) ==
    [id          |-> GetOr(r, "id", <<>>),
     category    |-> GetOr(r, "category", <<>>),
     title       |-> GetOr(r, "title", <<>>),
     description |-> Strip(GetOr(r, "description", <<>>)),
     priority    |-> GetOr(r, "priority", "Medium"),
     reasons     |-> reasons]

\* lines 143-150: MatchItem(...) built from the rule's display fields
MatchItem(r, reasons) ==
    [id          |-> GetOr(r, "id", <<>>),
     category    |-> GetOr(r, "category", <<>>),
     title       |-> IF Strip(GetOr(r, "title", <<>>)) # <<>>
                     THEN Strip(GetOr(r, "title", <<>>)) ELSE NoTitle,
     description |-> Strip(GetOr(r, "description", <<>>)),
     priority    |-> GetOr(r, "priority", "Medium"),
     reasons     |-> reasons]

\* the variant that skips a rule equal to an earlier rule of the catalog
RECURSIVE GenerateOnce(_, _, _)
GenerateOnce(b, rs, n) ==
    IF n = 0 THEN [error |-> NoError, items |-> <<>>]
    ELSE LET before == GenerateOnce(b, rs, n - 1)
             acc    == Evaluate(b, GetOr(rs[n], "conditions", EmptyDict))
         IN  IF before.error # NoError THEN before
             ELSE IF acc.error # NoError THEN [error |-> acc.error, items |-> <<>>]
             ELSE IF AllTrue(acc.checks) /\ \A m \in 1..(n - 1) : rs[m] # rs[n]
                  THEN [before EXCEPT !.items = Append(@, MatchItem(rs[n], acc.reasons))]
                  ELSE before

\* lines 58-150: _match_requirements_generator, consumed by list(...): the
\* items yielded for rules[1..n], or the exception that ended the scan
RECURSIVE Generate(_, _, _)
Generate(b, rs, n) ==
    IF n = 0 THEN [error |-> NoError, items |-> <<>>]
    ELSE LET before == Generate(b, rs, n - 1)
             acc    == Evaluate(b, GetOr(rs[n], "conditions", EmptyDict))
         IN  IF before.error # NoError THEN before
             ELSE IF acc.error # NoError THEN [error |-> acc.error, items |-> <<>>]
             ELSE IF AllTrue(acc.checks)
                  THEN [before EXCEPT !.items = Append(@, MatchItem(rs[n], acc.reasons))]
                  ELSE before

\* line 53
priority_order == [p \in {"High", "Medium", "Low"} |->
                      CASE p = "High" -> 0 [] p = "Medium" -> 1 [] p = "Low" -> 2]

\* line 54: the sort key (priority_order[x.priority], x.category, x.title)
SortKey(x) == <<priority_order[x.priority], x.category, x.title>>

\* a slip: the title left out of the sort key
KeyLessWithoutTitle(k1, k2) ==
    \/ k1[1] < k2[1]
    \/ k1[1] = k2[1] /\ StrLess(k1[2], k2[2])

\* k1 < k2 for the key tuples
KeyLess(k1, k2) ==
    \/ k1[1] < k2[1]
    \/ k1[1] = k2[1] /\ StrLess(k1[2], k2[2])
    \/ k1[1] = k2[1] /\ k1[2] = k2[2] /\ StrLess(k1[3], k2[3])

\* the variant of an unstable sort: x goes before the first item whose key
\* is greater or equal
RECURSIVE InsertBeforeEqual(_, _)
InsertBeforeEqual(sorted, x) ==
    IF sorted = <<>> THEN <<x>>
    ELSE IF ~KeyLess(SortKey(Head(sorted)), SortKey(x)) THEN <<x>> \o sorted
    ELSE <<Head(sorted)>> \o InsertBeforeEqual(Tail(sorted), x)

\* list.sort is stable: x goes before the first item whose key is greater
RECURSIVE InsertByKey(_, _)
InsertByKey(sorted, x) ==
    IF sorted = <<>> THEN <<x>>
    ELSE IF KeyLess(SortKey(x), SortKey(Head(sorted))) THEN <<x>> \o sorted
    ELSE <<Head(sorted)>> \o InsertByKey(Tail(sorted), x)

\* the variant that leaves the items in the order of the generator
AsGenerated(items, n) == SubSeq(items, 1, n)

RECURSIVE SortByKey(_, _)
SortByKey(items, n) ==
    IF n = 0 THEN <<>> ELSE InsertByKey(SortByKey(items, n - 1), items[n])

\* the variant that reads the first item of the list before sorting
SortMatchedFromFirst(items) ==
    IF items = <<>> THEN [error |-> "IndexError", items |-> <<>>]
    ELSE IF \E i \in DOMAIN items : items[i].priority \notin DOMAIN priority_order
    THEN [error |-> "KeyError", items |-> <<>>]
    ELSE [error |-> NoError, items |-> SortByKey(items, Len(items))]

\* line 54: matched.sort(key=...); the key function raises KeyError for a
\* priority that priority_order does not hold
SortMatched(items) ==
    IF \E i \in DOMAIN items : items[i].priority \notin DOMAIN priority_order
    THEN [error |-> "KeyError", items |-> <<>>]
    ELSE [error |-> NoError, items |-> SortByKey(items, Len(items))]

\* lines 39-56: the list returned, or the exception raised
match_requirements(b, rs) ==
    LET gen == Generate(b, rs, Len(rs))
    IN  IF gen.error # NoError THEN gen ELSE SortMatched(gen.items)

-----------------------------------------------------------------------------
(* Concurrent calls.  Each call of match_requirements in progress has its  *)
(* own frame: its profile argument, the position of the generator in the   *)
(* catalog, the list `matched` being built, and how it ended.  The catalog *)
(* is the one object the calls share.                                      *)

\* no call in progress besides the one of business, pc, matched
NoCalls == <<>>

\* no report has been asked for
NoReport == None

\* the frame of a call that has just been made with profile b
StartCall(b) ==
    [business |-> b, next |-> 1, items |-> <<>>, pc |-> "scan", error |-> NoError]

\* the variant in which the list is a module-level object: every call
\* appends to the list of the first
SharedList(c) == 1

\* line 50: matched is a new list, local to the call that builds it
ListOf(c) == c

\* lines 62-150: the generator of call c handles the next rule of rs: it
\* yields an item, skips the rule, or raises; past the last rule, list(...)
\* is complete
ScanStep(cs, c, rs) ==
    LET f == cs[c] IN
    IF f.next > Len(rs) THEN [cs EXCEPT ![c].pc = "sort"]
    ELSE LET r   == rs[f.next]
             acc == Evaluate(f.business, GetOr(r, "conditions", EmptyDict))
         IN  IF acc.error # NoError
             THEN [cs EXCEPT ![c].pc = "raised", ![c].error = acc.error, ![c].items = <<>>]
             ELSE IF AllTrue(acc.checks)
             THEN [[cs EXCEPT ![c].next = @ + 1]
                       EXCEPT ![ListOf(c)].items = Append(@, MatchItem(r, acc.reasons))]
             ELSE [cs EXCEPT ![c].next = @ + 1]

\* lines 52-56: call c sorts its list and returns it, or the key function
\* raises
SortStep(cs, c) ==
    LET res == SortMatched(cs[ListOf(c)].items)
    IN  [cs EXCEPT ![c].pc = IF res.error = NoError THEN "returned" ELSE "raised",
                   ![c].error = res.error,
                   ![c].items = res.items]

-----------------------------------------------------------------------------
(* Inputs.                                                                 *)

Sizes == {"small", "medium", "large"}

\* feature tags of the profiles
Tags == {"alcohol", "gas"}

\* lists of tags without repetition
TagLists == {<<>>, <<"alcohol">>, <<"gas">>, <<"alcohol", "gas">>, <<"gas", "alcohol">>}

Counts == {JInt(n) : n \in 0..MaxCount}

\* models.py BusinessInput, lines 12-26: the profiles construction accepts
BusinessInputs ==
    [size : Sizes, seats : 0..MaxCount, area_sqm : Counts \cup {None},
     staff_count : Counts \cup {None}, features : TagLists]

\* profiles whose counts are all integers
IntegerProfiles == {b \in BusinessInputs : b.area_sqm # None /\ b.staff_count # None}

NumericKeys ==
    {"min_seats", "max_seats", "min_area_sqm", "max_area_sqm", "min_staff", "max_staff"}

FeatureKeys == {"features_any", "features_all", "features_none"}

RecognizedKeys == {"size_any"} \cup NumericKeys \cup FeatureKeys

\* the values a condition key takes: of its type in the condition table, or null
CondValues(k) ==
    IF k = "size_any"
    THEN {None} \cup {JList(l) : l \in {<<>>, <<"small">>, <<"medium">>, <<"large">>,
                                        <<"small", "medium">>, <<"medium", "large">>}}
    ELSE IF k \in NumericKeys THEN {None} \cup Counts
    ELSE {None} \cup {JList(l) : l \in TagLists \cup {<<"Gas">>}}

\* condition objects over the keys of K, each with any of its values
RECURSIVE CondsOver(_)
CondsOver(K) ==
    IF K = {} THEN {EmptyDict}
    ELSE LET k == CHOOSE x \in K : TRUE
         IN  {(k :> v) @@ c : v \in CondValues(k), c \in CondsOver(K \ {k})}

\* the empty condition object and those with one or two recognized keys
SmallConds ==
    UNION {CondsOver(K) : K \in {{}} \cup {{k1, k2} : k1, k2 \in RecognizedKeys}}

\* a condition object with all ten keys (test_complex_conditions has seven)
ComplexCond ==
    [size_any      |-> JList(<<"small", "medium">>),
     min_seats     |-> JInt(1),
     max_seats     |-> JInt(1),
     min_area_sqm  |-> JInt(1),
     max_area_sqm  |-> JInt(1),
     min_staff     |-> JInt(1),
     max_staff     |-> JInt(1),
     features_any  |-> JList(<<"gas", "alcohol">>),
     features_all  |-> JList(<<"alcohol">>),
     features_none |-> JList(<<"gas">>)]

Conds == SmallConds \cup {ComplexCond}

\* a rule with every display field and the condition object c
RuleWith(c) ==
    [id |-> <<"r1">>, title |-> <<"a">>, category |-> <<"A">>,
     description |-> <<"a">>, priority |-> "High", conditions |-> c]

\* the same rule without its "conditions" entry
RuleWithoutConditions ==
    [id |-> <<"r1">>, title |-> <<"a">>, category |-> <<"A">>,
     description |-> <<"a">>, priority |-> "High"]

EvalRules == {RuleWith(c) : c \in Conds} \cup {RuleWithoutConditions}

-----------------------------------------------------------------------------
(* Construction of a BusinessInput from a request body.  A body is a       *)
(* function from the fields it supplies to their JSON values; size is a    *)
(* string, the counts are JInt(n) or None, features is a list of strings.  *)

\* what a validation error names: the rejected fields and, from the message
\* of validate_features, the tags listed as not allowed and as allowed
NoInvalid == [fields |-> {}, features |-> <<>>, allowed |-> <<>>]

\* size: Literal["small", "medium", "large"], required
SizeRejected(body) ==
    \/ "size" \notin DOMAIN body
    \/ body["size"] \notin Sizes

\* seats: int = Field(ge=0), required and not nullable
SeatsRejected(body) ==
    \/ "seats" \notin DOMAIN body
    \/ body["seats"] = None
    \/ body["seats"].n < 0

\* Optional[int] = Field(default=0, ge=0): a null is accepted as it is,
\* ge=0 is applied to integers only
OptionalCountRejected(body, field) ==
    /\ field \in DOMAIN body
    /\ body[field] # None
    /\ body[field].n < 0

\* the variant that looks at the first element only
invalid_features_first(v) ==
    IF v = <<>> THEN {} ELSE {v[1]} \ ALLOWED_FEATURES

\* invalid_features = set(v) - ALLOWED_FEATURES
invalid_features(v) == SetOf(v) \ ALLOWED_FEATURES

\* the tags validate_features rejects; features defaults to the empty list
InvalidTags(body) ==
    IF "features" \in DOMAIN body THEN invalid_features(body["features"]) ELSE {}

\* the fields whose validation fails
RejectedFields(body) ==
    {f \in {"size"} : SizeRejected(body)}
    \cup {f \in {"seats"} : SeatsRejected(body)}
    \cup {f \in {"area_sqm", "staff_count"} : OptionalCountRejected(body, f)}
    \cup {f \in {"features"} : InvalidTags(body) # {}}

\* ', '.join(invalid_features): the tags in the iteration order of the set,
\* which the language leaves open
Orderings(S) == {o \in [1..Cardinality(S) -> S] : SetOf(o) = S}

\* ', '.join(sorted(ALLOWED_FEATURES))
AllowedListing == Sorted(ListFrom(ALLOWED_FEATURES, IdentifierOrder, 1))

\* the value of a count field that is not required: 0 unless supplied
CountOrDefault(body, field) ==
    IF field \in DOMAIN body THEN body[field] ELSE JInt(0)

\* the object BusinessInput(**body) builds when no field is rejected
BusinessInput(body) ==
    [size |-> body["size"],
     seats |-> body["seats"].n,
     area_sqm |-> CountOrDefault(body, "area_sqm"),
     staff_count |-> CountOrDefault(body, "staff_count"),
     features |-> IF "features" \in DOMAIN body THEN body["features"] ELSE <<>>]

\* the body that supplies every field of a profile
BodyOf(b) == [f \in DOMAIN b |-> IF f = "seats" THEN JInt(b[f]) ELSE b[f]]

-----------------------------------------------------------------------------
(* The state machine: one call of match_requirements on the inputs.        *)

\* the variant that sorts the catalog it was given in place
MatchSortingCatalog ==
    /\ pc = "call"
    /\ LET res == match_requirements(business, rules)
       IN  /\ pc' = IF res.error = NoError THEN "returned" ELSE "raised"
           /\ matched' = res.items
           /\ error' = res.error
    /\ rules' = SortByKey(rules, Len(rules))
    /\ UNCHANGED <<request, business, invalid, seed, calls, report>>

\* match_requirements(business, rules) returns or raises
Match ==
    /\ pc = "call"
    /\ LET res == match_requirements(business, rules)
       IN  /\ pc' = IF res.error = NoError THEN "returned" ELSE "raised"
           /\ matched' = res.items
           /\ error' = res.error
    /\ UNCHANGED <<request, business, rules, invalid, seed, calls, report>>

Next == Match

\* one profile with integer counts against a catalog of one rule with any
\* condition object of Conds
InitEval ==
    /\ business \in IntegerProfiles
    /\ rules \in {<<r>> : r \in EvalRules}
    /\ pc = "call"
    /\ matched = <<>>
    /\ error = NoError
    /\ request = BodyOf(business)
    /\ invalid = NoInvalid
    /\ seed = <<ReversedOrder>>
    /\ calls = NoCalls
    /\ report = NoReport

SpecEval == InitEval /\ [][Next]_vars

\* the rules of the catalogs: every priority, categories and titles that
\* differ in case and length, and conditions on seats and area
CatalogRules ==
    {[id |-> <<"r1">>, title |-> t, category |-> c, description |-> <<"a">>,
      priority |-> p, conditions |-> cond] :
         t \in {<<"a">>, <<"a", "b">>, <<"B">>},
         c \in {<<"A">>, <<"B">>},
         p \in {"High", "Medium", "Low"},
         cond \in {EmptyDict, "min_seats" :> JInt(1), "max_area_sqm" :> JInt(0)}}

\* catalogs of at most MaxRules rules
RECURSIVE Catalogs(_)
Catalogs(n) ==
    IF n = 0 THEN {<<>>}
    ELSE Catalogs(n - 1) \cup
         {Append(c, r) : c \in {c \in Catalogs(n - 1) : Len(c) = n - 1}, r \in CatalogRules}

\* the profiles matched against the catalogs; area_sqm may be null
CatalogProfiles ==
    {b \in BusinessInputs :
        /\ b.size = "small" /\ b.features = <<>> /\ b.staff_count = JInt(0)
        /\ b.seats \in {0, MaxCount}
        /\ b.area_sqm \in {None, JInt(0)}}

\* one profile against a catalog of rules that differ in their display fields
Init ==
    /\ business \in CatalogProfiles
    /\ rules \in Catalogs(MaxRules)
    /\ pc = "call"
    /\ matched = <<>>
    /\ error = NoError
    /\ request = BodyOf(business)
    /\ invalid = NoInvalid
    /\ seed = <<ReversedOrder>>
    /\ calls = NoCalls
    /\ report = NoReport

Spec == Init /\ [][Next]_vars

\* a field of a body: left out, or supplied with one of the values
OptField(name, values) == {EmptyDict} \cup {name :> v : v \in values}

\* the bodies sent to the endpoint: every field may be missing, size may be
\* outside the Literal, a count may be null or negative, features may hold
\* tags outside the vocabulary ("pool", "spa"), repeated or not
Bodies ==
    {s @@ n @@ a @@ c @@ f :
        s \in OptField("size", {"small", "large", "huge"}),
        n \in OptField("seats", {None, JInt(-1), JInt(0), JInt(MaxCount)}),
        a \in OptField("area_sqm", {None, JInt(-1), JInt(1)}),
        c \in OptField("staff_count", {None, JInt(-1), JInt(1)}),
        f \in OptField("features",
                 {<<>>, <<"gas">>, <<"pool">>, <<"gas", "pool">>,
                  <<"pool", "pool">>, <<"spa", "pool">>,
                  <<"pool", "gas", "spa">>})}

\* the catalogs a constructed profile is matched against
ConstructCatalogs ==
    {<<>>, <<RuleWith(EmptyDict)>>,
     <<RuleWith("min_area_sqm" :> JInt(1))>>,
     <<RuleWith("max_staff" :> JInt(1))>>,
     <<RuleWith("features_any" :> JList(<<"gas">>))>>}

\* FastAPI builds the BusinessInput of /api/match from the request body:
\* the object, or a validation error that names the rejected fields and,
\* for features, the invalid tags
Construct ==
    /\ pc = "construct"
    /\ IF RejectedFields(request) = {}
       THEN /\ business' = BusinessInput(request)
            /\ pc' = "call"
            /\ error' = NoError
            /\ invalid' = NoInvalid
       ELSE /\ \E o \in Orderings(InvalidTags(request)) :
                  invalid' = [fields |-> RejectedFields(request),
                              features |-> o,
                              allowed |-> IF o = <<>> THEN <<>> ELSE AllowedListing]
            /\ pc' = "rejected"
            /\ error' = "ValidationError"
            /\ business' = business
    /\ UNCHANGED <<request, rules, matched, seed, calls, report>>

NextConstruct == Construct \/ Match

\* a request body arrives at /api/match
InitConstruct ==
    /\ request \in Bodies
    /\ rules \in ConstructCatalogs
    /\ pc = "construct"
    /\ business = None
    /\ matched = <<>>
    /\ error = NoError
    /\ invalid = NoInvalid
    /\ seed = <<ReversedOrder>>
    /\ calls = NoCalls
    /\ report = NoReport

SpecConstruct == InitConstruct /\ [][NextConstruct]_vars

\* rules as a JSON catalog may hold them: every field may be missing, the
\* title may be empty, blank or padded, the priority may be outside the
\* Literal of RequirementItem
FieldRules ==
    {i @@ t @@ c @@ d @@ p @@ k :
        i \in OptField("id", {<<"r1">>}),
        t \in OptField("title", {<<>>, <<" ">>, <<"a">>, <<" ", "a">>,
                                 <<" ", "a", " ", "b", " ">>}),
        c \in OptField("category", {<<"A">>}),
        d \in OptField("description", {<<" ", "a", " ">>}),
        p \in OptField("priority", {"High", "Low", "Urgent"}),
        k \in OptField("conditions", {EmptyDict, "min_seats" :> JInt(1)})}

\* a complete rule that applies to every business
WellFormedRule ==
    [id |-> <<"r2">>, title |-> <<"b">>, category |-> <<"B">>,
     description |-> <<"b">>, priority |-> "Medium", conditions |-> EmptyDict]

\* a rule of FieldRules alone, before or after the complete rule, or twice
FieldCatalogs ==
    {<<r>> : r \in FieldRules}
    \cup {<<r, WellFormedRule>> : r \in FieldRules}
    \cup {<<WellFormedRule, r>> : r \in FieldRules}
    \cup {<<r, r>> : r \in FieldRules}

\* one profile against a catalog with an incomplete rule
InitFields ==
    /\ business \in CatalogProfiles
    /\ rules \in FieldCatalogs
    /\ pc = "call"
    /\ matched = <<>>
    /\ error = NoError
    /\ request = BodyOf(business)
    /\ invalid = NoInvalid
    /\ seed = <<ReversedOrder>>
    /\ calls = NoCalls
    /\ report = NoReport

SpecFields == InitFields /\ [][Next]_vars

\* entries of a condition object under keys the evaluator does not know
UnknownEntries ==
    {"max_staff_count" :> JInt(0),
     "features" :> JList(<<"gas">>),
     ("max_staff_count" :> JInt(0)) @@ ("opening_hours" :> None)}

\* the empty condition object, those with one recognized key and the one
\* with all ten, each extended with unknown entries
ExtendedConds ==
    {c @@ x : c \in UNION {CondsOver({k}) : k \in RecognizedKeys}
                    \cup {EmptyDict, ComplexCond},
              x \in UnknownEntries}

\* one profile against one rule whose condition object has unknown keys
InitUnknown ==
    /\ business \in IntegerProfiles
    /\ rules \in {<<RuleWith(c)>> : c \in ExtendedConds}
    /\ pc = "call"
    /\ matched = <<>>
    /\ error = NoError
    /\ request = BodyOf(business)
    /\ invalid = NoInvalid
    /\ seed = <<ReversedOrder>>
    /\ calls = NoCalls
    /\ report = NoReport

SpecUnknown == InitUnknown /\ [][Next]_vars

\* feature lists of at most n tags of the vocabulary, in any order and with
\* repetitions
RECURSIVE FeatureLists(_)
FeatureLists(n) ==
    IF n = 0 THEN {<<>>}
    ELSE FeatureLists(n - 1) \cup
         {Append(l, t) : l \in {l \in FeatureLists(n - 1) : Len(l) = n - 1},
                         t \in Tags \cup {"meat"}}

\* profiles that differ in their feature list only
FeatureProfiles ==
    {[size |-> "small", seats |-> 1, area_sqm |-> JInt(1), staff_count |-> JInt(1),
      features |-> l] : l \in FeatureLists(MaxFeatures)}

\* condition objects with one or two of the features_* keys, and the one
\* with all ten keys
FeatureConds ==
    UNION {CondsOver({k1, k2}) : k1, k2 \in FeatureKeys} \cup {ComplexCond}

\* one profile, whose feature list may repeat tags, against one rule
InitFeatures ==
    /\ business \in FeatureProfiles
    /\ rules \in {<<RuleWith(c)>> : c \in FeatureConds}
    /\ pc = "call"
    /\ matched = <<>>
    /\ error = NoError
    /\ request = BodyOf(business)
    /\ invalid = NoInvalid
    /\ seed = <<ReversedOrder>>
    /\ calls = NoCalls
    /\ report = NoReport

SpecFeatures == InitFeatures /\ [][Next]_vars

\* the caller keeps the outcome and the arguments; the next call runs in a
\* process that may iterate sets in another order
Restart ==
    /\ pc \in {"returned", "raised"}
    /\ \E h \in Seeds : seed' = Append(seed, h)
    /\ pc' = "call again"
    /\ UNCHANGED <<request, business, rules, matched, error, invalid, calls, report>>

\* the second call of match_requirements, with the arguments of the first
MatchAgain ==
    /\ pc = "call again"
    /\ LET res == match_requirements(business, rules)
       IN  /\ matched' = res.items
           /\ error' = res.error
    /\ pc' = "again"
    /\ UNCHANGED <<request, business, rules, invalid, seed, calls, report>>

NextTwice == Match \/ Restart \/ MatchAgain

\* one profile against one rule with conditions on features; the first call
\* runs under either iteration order
InitTwice ==
    /\ business \in FeatureProfiles
    /\ rules \in {<<RuleWith(c)>> : c \in FeatureConds}
    /\ pc = "call"
    /\ matched = <<>>
    /\ error = NoError
    /\ request = BodyOf(business)
    /\ invalid = NoInvalid
    /\ seed \in {<<h>> : h \in Seeds}
    /\ calls = NoCalls
    /\ report = NoReport

SpecTwice == InitTwice /\ [][NextTwice]_vars

\* the concurrent requests of the model
Callers == {1, 2}

\* the rules of the shared catalog: two priorities, and conditions that
\* hold for some profiles, fail for others and raise for a null area
SharedRules ==
    {r \in CatalogRules :
        r.title = <<"a">> /\ r.category = <<"A">> /\ r.priority \in {"High", "Low"}}

SharedCatalogs == {c \in Catalogs(MaxRules) : \A i \in DOMAIN c : c[i] \in SharedRules}

\* the generator of call c advances by one rule
Scan(c) ==
    /\ calls[c].pc = "scan"
    /\ calls' = ScanStep(calls, c, rules)
    /\ UNCHANGED <<request, business, rules, pc, matched, error, invalid, seed, report>>

\* call c sorts and returns
Sort(c) ==
    /\ calls[c].pc = "sort"
    /\ calls' = SortStep(calls, c)
    /\ UNCHANGED <<request, business, rules, pc, matched, error, invalid, seed, report>>

NextConcurrent == \E c \in Callers : Scan(c) \/ Sort(c)

\* two requests, with the same or different profiles, have called
\* match_requirements on the catalog that load_requirements gave each
InitConcurrent ==
    /\ rules \in SharedCatalogs
    /\ calls \in {[c \in Callers |-> StartCall(b[c])] : b \in [Callers -> CatalogProfiles]}
    /\ business = None
    /\ request = None
    /\ pc = "concurrent"
    /\ matched = <<>>
    /\ error = NoError
    /\ invalid = NoInvalid
    /\ seed = <<ReversedOrder>>
    /\ report = NoReport

SpecConcurrent == InitConcurrent /\ [][NextConcurrent]_vars

\* rules that tie on (priority, category, title) and differ in id, in the
\* padding of the title or in their conditions, and rules that do not tie
TieRules ==
    {[id |-> i, title |-> t, category |-> <<"A">>, description |-> <<"a">>,
      priority |-> p, conditions |-> c] :
         i \in {<<"r1">>, <<"r2">>},
         t \in {<<"a">>, <<" ", "a">>, <<"b">>},
         p \in {"High", "Low"},
         c \in {EmptyDict, "min_seats" :> JInt(1)}}

\* catalogs of at most n rules of TieRules
RECURSIVE TieCatalogs(_)
TieCatalogs(n) ==
    IF n = 0 THEN {<<>>}
    ELSE TieCatalogs(n - 1) \cup
         {Append(c, r) : c \in {c \in TieCatalogs(n - 1) : Len(c) = n - 1}, r \in TieRules}

\* one profile against a catalog whose rules may tie in the sort key
InitTies ==
    /\ business \in {b \in CatalogProfiles : b.area_sqm = JInt(0)}
    /\ rules \in TieCatalogs(MaxRules)
    /\ pc = "call"
    /\ matched = <<>>
    /\ error = NoError
    /\ request = BodyOf(business)
    /\ invalid = NoInvalid
    /\ seed = <<ReversedOrder>>
    /\ calls = NoCalls
    /\ report = NoReport

SpecTies == InitTies /\ [][Next]_vars

-----------------------------------------------------------------------------
(* Properties of the condition evaluator, checked under SpecEval: the      *)
(* catalog holds one rule, TheRule.                                        *)

Called == pc # "call"

TheRule == rules[1]

\* the rule's condition object; a rule without "conditions" has the empty one
TheCond == IF "conditions" \in DOMAIN TheRule THEN TheRule.conditions ELSE <<>>

\* the call returned the rule, and nothing else
RuleReturned ==
    pc = "returned" /\ Len(matched) = 1 /\ matched[1].id = TheRule.id

\* the call returned the rule as a general rule: its only reason is the marker
ReturnedAsGeneral == RuleReturned /\ matched[1].reasons = <<GeneralReason>>

\* the features of the profile, as a set
BusinessFeatures == {business.features[i] : i \in DOMAIN business.features}

Elements(v) == {v.l[i] : i \in DOMAIN v.l}

\* the individual predicate of key k with value v, by the condition table
KeyPredicate(k, v) ==
    CASE k = "size_any"      -> business.size \in Elements(v)
      [] k = "min_seats"     -> business.seats >= v.n
      [] k = "max_seats"     -> business.seats <= v.n
      [] k = "min_area_sqm"  -> business.area_sqm.n >= v.n
      [] k = "max_area_sqm"  -> business.area_sqm.n <= v.n
      [] k = "min_staff"     -> business.staff_count.n >= v.n
      [] k = "max_staff"     -> business.staff_count.n <= v.n
      [] k = "features_any"  -> BusinessFeatures \cap Elements(v) # {}
      [] k = "features_all"  -> Elements(v) \subseteq BusinessFeatures
      [] k = "features_none" -> BusinessFeatures \cap Elements(v) = {}

\* an effective value: an integer, or a collection that is not empty
Effective(v) == v.t = "int" \/ (v.t = "list" /\ v.l # <<>>)

EffectiveKeys(cond) == {k \in DOMAIN cond : Effective(cond[k])}

\* the rule's only condition is key k, with value v
OnlyCondition(k, v) == DOMAIN TheCond = {k} /\ TheCond[k] = v

\* C1: a rule with one or more effective keys is returned iff the predicate of
\* every effective key is true for the profile.
C1_Conjunction ==
    (Called /\ EffectiveKeys(TheCond) # {}) =>
        (RuleReturned <=>
            \A k \in EffectiveKeys(TheCond) : KeyPredicate(k, TheCond[k]))

\* The conjunction property for the condition objects none of whose
\* features_* keys is null (a null one makes the call raise, see C10).
ConjunctionWithoutNullFeatureKeys ==
    (Called /\ EffectiveKeys(TheCond) # {}
            /\ \A k \in DOMAIN TheCond \cap FeatureKeys : TheCond[k] # None) =>
        (RuleReturned <=>
            \A k \in EffectiveKeys(TheCond) : KeyPredicate(k, TheCond[k]))

\* the ten-key rule is returned: every one of its predicates is true
ConjunctionAllTrue == Called /\ TheCond = ComplexCond /\ RuleReturned

\* the ten-key rule is not returned although only the predicate of max_seats
\* is false
ConjunctionOneFalse ==
    /\ Called /\ TheCond = ComplexCond /\ ~RuleReturned
    /\ \A k \in DOMAIN ComplexCond :
           KeyPredicate(k, ComplexCond[k]) <=> k # "max_seats"

\* C2: a rule whose conditions object is empty, or which has no "conditions"
\* entry, is returned for every profile, with the general-rule marker as its
\* only reason.
C2_GeneralRule ==
    (Called /\ (TheRule = RuleWithoutConditions \/ TheCond = EmptyDict)) =>
        ReturnedAsGeneral

C2_Witness ==
    /\ TheRule = RuleWithoutConditions /\ ReturnedAsGeneral
    /\ business.features # <<>>

\* C3: with min_X = N as the only condition the rule is returned when the
\* field equals N and not when it equals N-1; with max_X = N, returned when
\* the field equals N and not when it equals N+1.
FieldOf(k) ==
    CASE k \in {"min_seats", "max_seats"}       -> business.seats
      [] k \in {"min_area_sqm", "max_area_sqm"} -> business.area_sqm.n
      [] k \in {"min_staff", "max_staff"}       -> business.staff_count.n

C3_InclusiveBoundaries ==
    \A N \in 0..MaxCount :
        /\ \A k \in {"min_seats", "min_area_sqm", "min_staff"} :
               (Called /\ OnlyCondition(k, JInt(N))) =>
                   /\ FieldOf(k) = N => RuleReturned
                   /\ FieldOf(k) = N - 1 => ~RuleReturned
        /\ \A k \in {"max_seats", "max_area_sqm", "max_staff"} :
               (Called /\ OnlyCondition(k, JInt(N))) =>
                   /\ FieldOf(k) = N => RuleReturned
                   /\ FieldOf(k) = N + 1 => ~RuleReturned

\* max_area_sqm = 1: the profile with area 1 matched
C3_Witness ==
    /\ OnlyCondition("max_area_sqm", JInt(1)) /\ business.area_sqm = JInt(1)
    /\ RuleReturned

\* C4: with a non-empty features_any = S as the only condition the rule is
\* returned iff the profile has a tag of S; with features_all = S, iff it has
\* every tag of S; with features_none = S, iff it has no tag of S.  Tags are
\* equal only when they are the same string.
C4_SetSemantics ==
    \A k \in FeatureKeys :
        (Called /\ DOMAIN TheCond = {k} /\ Effective(TheCond[k])) =>
            (RuleReturned <=> KeyPredicate(k, TheCond[k]))

\* features_all = [gas, alcohol] against a profile with both tags
C4_Witness ==
    /\ OnlyCondition("features_all", JList(<<"gas", "alcohol">>))
    /\ BusinessFeatures = {"alcohol", "gas"}
    /\ RuleReturned

\* C5: with a non-empty size_any = S as the only condition the rule is
\* returned iff the profile's size is in S, and then it has one reason, which
\* names the size and size_any.
Pieces(reason) == {reason[i] : i \in DOMAIN reason}

C5_SizeAny ==
    (Called /\ DOMAIN TheCond = {"size_any"} /\ Effective(TheCond.size_any)) =>
        /\ RuleReturned <=> business.size \in Elements(TheCond.size_any)
        /\ RuleReturned =>
               /\ Len(matched[1].reasons) = 1
               /\ {business.size, "size_any"} \subseteq Pieces(matched[1].reasons[1])

C5_Witness ==
    /\ OnlyCondition("size_any", JList(<<"small", "medium">>))
    /\ business.size = "medium"
    /\ RuleReturned

\* C6: the sequence returned is ascending by (priority rank, category,
\* title), High = 0 < Medium = 1 < Low = 2: no result has a key greater than
\* the key of the result after it.  Checked under Spec.
PriorityRank(p) == CASE p = "High" -> 0 [] p = "Medium" -> 1 [] p = "Low" -> 2

StrLeq(a, b) == a = b \/ StrLess(a, b)

ItemLeq(x, y) ==
    \/ PriorityRank(x.priority) < PriorityRank(y.priority)
    \/ /\ PriorityRank(x.priority) = PriorityRank(y.priority)
       /\ \/ x.category # y.category /\ StrLess(x.category, y.category)
          \/ x.category = y.category /\ StrLeq(x.title, y.title)

C6_SortOrder ==
    pc = "returned" =>
        \A i \in 1..(Len(matched) - 1) : ItemLeq(matched[i], matched[i + 1])

\* two rules of one priority and category are both returned, in the order
\* of their titles ("B" before "a"), the reverse of their catalog order
C6_Witness ==
    /\ pc = "returned" /\ Len(rules) = 2 /\ Len(matched) = 2
    /\ rules[1].title = <<"a">> /\ rules[2].title = <<"B">>
    /\ rules[1].priority = rules[2].priority
    /\ rules[1].category = rules[2].category
    /\ matched[1].title = <<"B">> /\ matched[2].title = <<"a">>

\* C7: every result returned has at least one reason.
C7_ReasonsNonEmpty ==
    pc = "returned" => \A i \in DOMAIN matched : Len(matched[i].reasons) >= 1

\* a rule matched through features_none alone, with its one reason
C7_Witness ==
    /\ OnlyCondition("features_none", JList(<<"gas">>))
    /\ RuleReturned /\ Len(matched[1].reasons) = 1

\* the outcome of the call, and the outcome of a call with rule r alone
Outcome == <<pc, matched, error>>

OutcomeFor(r) ==
    LET res == match_requirements(business, <<r>>)
    IN  <<IF res.error = NoError THEN "returned" ELSE "raised", res.items, res.error>>

\* the rule with key k removed from its condition object
WithoutKey(k) ==
    [TheRule EXCEPT !.conditions = [x \in DOMAIN TheCond \ {k} |-> TheCond[x]]]

HasValue(k, v) == k \in DOMAIN TheCond /\ TheCond[k] = v

\* C8 as stated: a numeric key with the value 0 is treated as absent; the
\* call ends as it does for the rule without that key.
C8_ZeroIsAbsent ==
    \A k \in NumericKeys :
        (Called /\ HasValue(k, JInt(0))) => Outcome = OutcomeFor(WithoutKey(k))

\* C8 as amended: a numeric key with the value 0 is evaluated as the
\* threshold 0.  A rule holding it is returned only if its predicate is true,
\* then carries a reason naming the key, and is never a general rule; alone,
\* min_X = 0 matches every profile and max_X = 0 the profiles whose field is
\* 0.  Only a numeric key that is null is treated as absent.
C8_ZeroIsAThreshold ==
    \A k \in NumericKeys :
        /\ (Called /\ HasValue(k, JInt(0))) =>
               /\ RuleReturned =>
                      /\ KeyPredicate(k, JInt(0))
                      /\ \E i \in DOMAIN matched[1].reasons :
                             k \in Pieces(matched[1].reasons[i])
               /\ ~ReturnedAsGeneral
               /\ DOMAIN TheCond = {k} =>
                      /\ RuleReturned <=>
                             (k \in {"min_seats", "min_area_sqm", "min_staff"}
                                  \/ FieldOf(k) = 0)
                      /\ RuleReturned => Len(matched[1].reasons) = 1
        /\ (Called /\ HasValue(k, None)) => Outcome = OutcomeFor(WithoutKey(k))

\* max_seats = 0 alone: a profile with 2 seats is not matched
C8_Witness ==
    /\ OnlyCondition("max_seats", JInt(0)) /\ business.seats = 2
    /\ pc = "returned" /\ matched = <<>>

\* C9: a size_any, features_any, features_all or features_none key whose
\* value is the empty collection does not affect the outcome: the call ends as
\* it does for the rule without that key; a rule whose only keys are empty
\* collections is returned as a general rule.
CollectionKeys == {"size_any"} \cup FeatureKeys

C9_EmptySetsAbsent ==
    /\ \A k \in CollectionKeys :
           (Called /\ HasValue(k, JList(<<>>))) => Outcome = OutcomeFor(WithoutKey(k))
    /\ (Called /\ DOMAIN TheCond # {}
               /\ \A k \in DOMAIN TheCond : TheCond[k] = JList(<<>>)) =>
           ReturnedAsGeneral

\* an empty features_any next to min_seats = 1: matched on min_seats alone
C9_Witness ==
    /\ TheCond = [features_any |-> JList(<<>>), min_seats |-> JInt(1)]
    /\ RuleReturned /\ Len(matched[1].reasons) = 1
    /\ "min_seats" \in Pieces(matched[1].reasons[1])

\* C10: a rule whose condition object gives null to every key it lists is
\* evaluated without error and returned as a general rule.
C10_NullKeysGeneral ==
    (Called /\ DOMAIN TheCond # {} /\ \A k \in DOMAIN TheCond : TheCond[k] = None) =>
        ReturnedAsGeneral

-----------------------------------------------------------------------------
(* Properties of catalogs with incomplete rules, checked under SpecFields. *)

\* every rule of the catalog that has a priority has one of the Literal
OnlyMissingFields ==
    \A i \in DOMAIN rules :
        "priority" \in DOMAIN rules[i] => rules[i].priority \in {"High", "Medium", "Low"}

\* the conditions of a rule of FieldCatalogs hold for the profile
Holds(r) ==
    \/ "conditions" \notin DOMAIN r
    \/ DOMAIN r.conditions = {}
    \/ business.seats >= r.conditions.min_seats.n

Blank(s) == \A i \in DOMAIN s : s[i] = " "

\* t is s without its leading and trailing blanks
IsStripOf(t, s) ==
    /\ \E i \in 0..Len(s) : \E j \in i..Len(s) :
          /\ t = SubSeq(s, i + 1, j)
          /\ Blank(SubSeq(s, 1, i))
          /\ Blank(SubSeq(s, j + 1, Len(s)))
    /\ t # <<>> => t[1] # " " /\ t[Len(t)] # " "

\* item x shows rule r with the documented fallbacks
ShowsWithFallbacks(x, r) ==
    /\ x.id = IF "id" \in DOMAIN r THEN r.id ELSE <<>>
    /\ x.category = IF "category" \in DOMAIN r THEN r.category ELSE <<>>
    /\ IF "title" \notin DOMAIN r \/ Blank(r.title)
       THEN x.title = NoTitle
       ELSE IsStripOf(x.title, r.title)
    /\ IF "description" \in DOMAIN r
       THEN IsStripOf(x.description, r.description)
       ELSE x.description = <<>>
    /\ x.priority = IF "priority" \in DOMAIN r THEN r.priority ELSE "Medium"

\* C11: a catalog whose rules lack any of id, title, category, description,
\* priority or conditions is scanned to the end: the call returns, one item
\* per rule whose conditions hold, with "(no title)" for a missing, empty or
\* blank title, the stripped title otherwise, "Medium" for a missing
\* priority and "" for a missing id, category or description
C11_MissingFields ==
    (Called /\ OnlyMissingFields) =>
        /\ pc = "returned"
        /\ Len(matched) = Cardinality({i \in DOMAIN rules : Holds(rules[i])})
        /\ \A i \in DOMAIN rules :
              Holds(rules[i]) =>
                  \E j \in DOMAIN matched : ShowsWithFallbacks(matched[j], rules[i])

\* a rule with a blank title and no other field, after the complete rule:
\* both are returned
C11_Witness ==
    /\ Called /\ OnlyMissingFields
    /\ Len(rules) = 2
    /\ DOMAIN rules[2] = {"title"}
    /\ rules[2].title = <<" ">>
    /\ Len(matched) = 2
    /\ \E j \in DOMAIN matched : matched[j].title = NoTitle

\* the outcome of the call on the catalog that holds rule r alone
Alone(r) == match_requirements(business, <<r>>)

\* C12: what the call returns for a rule depends on the profile and on that
\* rule only: whatever the other rule of the catalog is (without display
\* fields, with a priority outside High, Medium, Low), the call returns, and
\* it returns the rule exactly when the call on the rule alone returns it,
\* with the same item
C12_RuleIndependence ==
    Called =>
        \A i \in DOMAIN rules :
            Alone(rules[i]).error = NoError =>
                /\ pc = "returned"
                /\ \A k \in DOMAIN Alone(rules[i]).items :
                      \E j \in DOMAIN matched : matched[j] = Alone(rules[i]).items[k]
                /\ Alone(rules[i]).items = <<>> =>
                      \A j \in DOMAIN matched :
                          \E h \in DOMAIN rules \ {i} :
                              matched[j] \in {Alone(rules[h]).items[k] :
                                                k \in DOMAIN Alone(rules[h]).items}

-----------------------------------------------------------------------------
(* Properties of condition objects with unknown keys, under SpecUnknown.   *)

\* the rule with the entries of its condition object under recognized keys
RecognizedOnly ==
    [TheRule EXCEPT !.conditions =
        [k \in DOMAIN TheCond \cap RecognizedKeys |-> TheCond[k]]]

\* C13: keys other than the ten recognized ones are ignored: the outcome of
\* the call (returned or not, and the reasons) is that of the rule without
\* them, and a rule whose condition object has unknown keys only is returned
\* for every profile as a general rule
C13_UnknownKeysIgnored ==
    Called =>
        /\ Outcome = OutcomeFor(RecognizedOnly)
        /\ DOMAIN TheCond \cap RecognizedKeys = {} => ReturnedAsGeneral

\* a business with staff is returned a rule that asks for one seat and has
\* the unknown entry max_staff_count: 0
C13_Witness ==
    /\ Called
    /\ DOMAIN TheCond = {"min_seats", "max_staff_count"}
    /\ business.staff_count.n > TheCond.max_staff_count.n
    /\ RuleReturned
    /\ matched[1].reasons # <<GeneralReason>>

-----------------------------------------------------------------------------
(* Properties of the construction of the profile and of the call on the    *)
(* constructed profile, checked under SpecConstruct.                       *)

\* construction accepted the request body: business is the profile
Accepted == pc \in {"call", "returned", "raised"}

\* C14: for a profile that construction accepted and a catalog whose
\* condition values have the types of the condition table and whose
\* priorities are High, Medium or Low, the call returns and raises no error
C14_NeverFails ==
    Accepted => pc # "raised" /\ error = NoError

\* v is an integer greater than or equal to 0
IsCount(v) == v.t = "int" /\ v.n >= 0

\* the body supplies an integer below 0 for the field
NegativeIn(body, field) ==
    field \in DOMAIN body /\ body[field].t = "int" /\ body[field].n < 0

\* C15: an accepted profile has a size of small, medium, large, and seats,
\* area_sqm and staff_count that are integers >= 0, area_sqm and staff_count
\* being 0 when the body did not supply them; a body with another size or
\* with a negative count is rejected
C15_ProfileInvariant ==
    /\ Accepted =>
          /\ business.size \in {"small", "medium", "large"}
          /\ business.seats \in Nat
          /\ IsCount(business.area_sqm)
          /\ IsCount(business.staff_count)
          /\ "area_sqm" \notin DOMAIN request => business.area_sqm = JInt(0)
          /\ "staff_count" \notin DOMAIN request => business.staff_count = JInt(0)
    /\ (/\ pc # "construct"
        /\ \/ "size" \in DOMAIN request /\ request["size"] \notin {"small", "medium", "large"}
           \/ \E f \in {"seats", "area_sqm", "staff_count"} : NegativeIn(request, f))
       => pc = "rejected"

\* the same without the requirement that area_sqm and staff_count are integers
ProfileInvariantButNull ==
    /\ Accepted =>
          /\ business.size \in {"small", "medium", "large"}
          /\ business.seats \in Nat
          /\ business.area_sqm # None => IsCount(business.area_sqm)
          /\ business.staff_count # None => IsCount(business.staff_count)
          /\ "area_sqm" \notin DOMAIN request => business.area_sqm = JInt(0)
          /\ "staff_count" \notin DOMAIN request => business.staff_count = JInt(0)
    /\ (/\ pc # "construct"
        /\ \/ "size" \in DOMAIN request /\ request["size"] \notin {"small", "medium", "large"}
           \/ \E f \in {"seats", "area_sqm", "staff_count"} : NegativeIn(request, f))
       => pc = "rejected"

\* the tags of the body that are outside the vocabulary
TagsOutsideVocabulary ==
    IF "features" \in DOMAIN request
    THEN {request["features"][i] : i \in DOMAIN request["features"]} \ ALLOWED_FEATURES
    ELSE {}

\* C16: construction succeeds only if every tag of features is in
\* ALLOWED_FEATURES, and then keeps the list as supplied; with a tag outside
\* the vocabulary it fails, and the error lists as not allowed exactly the
\* tags outside the vocabulary, each once
C16_FeatureVocabulary ==
    pc # "construct" =>
        /\ Accepted =>
              /\ TagsOutsideVocabulary = {}
              /\ "features" \in DOMAIN request => business.features = request["features"]
        /\ TagsOutsideVocabulary # {} =>
              /\ pc = "rejected"
              /\ "features" \in invalid.fields
              /\ {invalid.features[i] : i \in DOMAIN invalid.features} = TagsOutsideVocabulary
              /\ Len(invalid.features) = Cardinality(TagsOutsideVocabulary)
        /\ pc = "rejected" /\ TagsOutsideVocabulary = {} =>
              "features" \notin invalid.fields /\ invalid.features = <<>>

\* a body whose features are pool, gas, spa is rejected for pool and spa
C16_Witness ==
    /\ pc = "rejected"
    /\ "features" \in DOMAIN request
    /\ request["features"] = <<"pool", "gas", "spa">>
    /\ invalid.features = <<"spa", "pool">>

-----------------------------------------------------------------------------
(* Properties of the profile's feature list, checked under SpecFeatures.   *)

\* the outcome of the call for profile b and the catalog of the state
OutcomeOf(b) ==
    LET res == match_requirements(b, rules)
    IN  <<IF res.error = NoError THEN "returned" ELSE "raised", res.items, res.error>>

\* C17: the features of the profile count as a set: a profile that differs
\* from the one of the call only in the order or the repetitions of its
\* feature list gets the same output, reasons included
C17_FeaturesAsSet ==
    Called =>
        \A l \in FeatureLists(MaxFeatures) :
            {l[i] : i \in DOMAIN l} = BusinessFeatures =>
                OutcomeOf([business EXCEPT !.features = l]) = Outcome

\* a profile that lists gas twice, around alcohol, is returned the rule that
\* asks for both
C17_Witness ==
    /\ Called
    /\ business.features = <<"gas", "alcohol", "gas">>
    /\ DOMAIN TheCond = {"features_all"}
    /\ TheCond.features_all = JList(<<"alcohol", "gas">>)
    /\ RuleReturned

-----------------------------------------------------------------------------
(* Properties of repeated calls, checked under SpecTwice.                  *)

\* C18: a second call with the same profile and the same catalog returns
\* what the first call returned: the same items in the same positions with
\* the same reasons (or raises the same error)
C18_Determinism ==
    [][pc = "call again" /\ pc' = "again" => matched' = matched /\ error' = error]_vars

\* the second call ran under the other iteration order and returned a rule
\* with one reason for each of two matched tags
C18_Witness ==
    /\ pc = "again"
    /\ seed[1] # seed[2]
    /\ Len(matched) = 1
    /\ DOMAIN TheCond = {"features_any"}
    /\ Len(matched[1].reasons) = 2

-----------------------------------------------------------------------------
(* Properties of the catalog as a whole, checked under Spec.               *)

\* C19: the call on the empty catalog returns the empty sequence and raises
\* no error, whatever the profile
C19_EmptyCatalog ==
    (Called /\ rules = <<>>) =>
        pc = "returned" /\ matched = <<>> /\ error = NoError

\* a business with seats was matched against the empty catalog
C19_Witness ==
    /\ Called
    /\ rules = <<>>
    /\ business.seats = MaxCount
    /\ pc = "returned"

-----------------------------------------------------------------------------
(* Properties of the feature reasons, checked under SpecEval.              *)

\* the tags listed under the features_* keys of the rule
TagsOfCond ==
    UNION {Elements(TheCond[k]) :
             k \in {x \in DOMAIN TheCond \cap FeatureKeys : TheCond[x].t = "list"}}

\* C20: every reason of a rule returned for its features_any, features_all
\* or features_none conditions contains the identifier of a tag of the rule,
\* and the first reason of a rule matched through features_any alone
\* contains the identifier of a tag the business and the rule share
C20_ReasonsNameTheTag ==
    (Called /\ RuleReturned /\ ~ReturnedAsGeneral /\ DOMAIN TheCond \subseteq FeatureKeys) =>
        /\ \A i \in DOMAIN matched[1].reasons :
              \E t \in TagsOfCond : t \in Pieces(matched[1].reasons[i])
        /\ EffectiveKeys(TheCond) = {"features_any"} =>
              \E t \in BusinessFeatures \cap Elements(TheCond.features_any) :
                  t \in Pieces(matched[1].reasons[1])

\* the sentences the tests look for: "<he: all the required features are
\* present>" and "<he: checked that there are no forbidden features>"
AllPresentSentence == "he:kol hameafyenim hadrushim kayamim"

NoneForbiddenSentence == "he:nivdak sheein meafyenim asurim"

\* C21: the first reason of a rule returned for a features_all that is its
\* only condition contains the sentence "all the required features are
\* present", and the first reason of a rule returned for a features_none that
\* is its only condition contains "checked that there are no forbidden
\* features"
C21_SummaryReasons ==
    (Called /\ RuleReturned) =>
        /\ (DOMAIN TheCond = {"features_all"} /\ Effective(TheCond.features_all)) =>
              AllPresentSentence \in Pieces(matched[1].reasons[1])
        /\ (DOMAIN TheCond = {"features_none"} /\ Effective(TheCond.features_none)) =>
              NoneForbiddenSentence \in Pieces(matched[1].reasons[1])

\* the tags the rule declares under key k
Declared(k) ==
    IF k \in DOMAIN TheCond /\ TheCond[k].t = "list" THEN Elements(TheCond[k]) ELSE {}

\* the tags a satisfied key k is about
TagsAbout(k) ==
    IF k = "features_any" THEN BusinessFeatures \cap Declared(k) ELSE Declared(k)

\* the text that opens the reasons of key k
OpeningOf(k) ==
    CASE k = "features_any"  -> "he:meafyen zuha : "
      [] k = "features_all"  -> "he:meafyen nidrash : "
      [] k = "features_none" -> "he:meafyen asur lo kayam : "

\* the positions of the reasons of key k in the returned rule
PositionsOf(k) ==
    {i \in DOMAIN matched[1].reasons : matched[1].reasons[i][1] = OpeningOf(k)}

\* the reasons at positions P are one per tag of S, in ascending order of
\* the identifiers
OnePerTagAscending(P, S) ==
    /\ Cardinality(P) = Cardinality(S)
    /\ \A i \in P :
          \E t \in S :
              /\ matched[1].reasons[i][2] = FeatureName(t)
              /\ Cardinality({j \in P : j < i}) =
                     Cardinality({u \in S : IdentifierRank(u) < IdentifierRank(t)})

\* C22: in a returned rule, features_any contributes one reason per tag the
\* business shares with the declared set, features_all and features_none one
\* reason per declared tag, and within each group the reasons follow the
\* ascending order of the tag identifiers
C22_PerTagReasons ==
    (Called /\ RuleReturned) =>
        \A k \in FeatureKeys : OnePerTagAscending(PositionsOf(k), TagsAbout(k))

\* a business with gas and alcohol is returned a rule that requires both:
\* two reasons, alcohol first
C22_Witness ==
    /\ Called /\ RuleReturned
    /\ DOMAIN TheCond = {"features_all"}
    /\ TheCond.features_all = JList(<<"gas", "alcohol">>)
    /\ matched[1].reasons = <<<<"he:meafyen nidrash : ", FeatureName("alcohol")>>,
                              <<"he:meafyen nidrash : ", FeatureName("gas")>>>>

-----------------------------------------------------------------------------
(* Properties of the order of the reasons, checked under SpecEval.         *)

\* the condition keys in the order of the condition table
TableOrder ==
    <<"size_any", "min_seats", "max_seats", "min_area_sqm", "max_area_sqm",
      "min_staff", "max_staff", "features_any", "features_all", "features_none">>

TableRank(k) == CHOOSE i \in DOMAIN TableOrder : TableOrder[i] = k

\* the key a reason is about: size and numeric reasons end with the key,
\* feature reasons open with the text of their key
KeyOfReason(r) ==
    IF r[Len(r)] \in NumericKeys \cup {"size_any"} THEN r[Len(r)]
    ELSE CHOOSE k \in FeatureKeys : r[1] = OpeningOf(k)

\* reason r states the value of the profile, the comparison and the threshold
StatesComparison(r, k) ==
    \E p \in 1..(Len(r) - 2) :
        /\ r[p] = Str(FieldOf(k))
        /\ r[p + 1] = IF k \in {"min_seats", "min_area_sqm", "min_staff"}
                      THEN ">=" ELSE "<="
        /\ r[p + 2] = Str(TheCond[k].n)

\* C23: the reasons of a returned rule are grouped by condition key, the
\* groups follow the order of the condition table, and each numeric reason
\* states the profile's value, the comparison and the threshold
C23_ReasonOrder ==
    (Called /\ RuleReturned /\ ~ReturnedAsGeneral) =>
        LET rs == matched[1].reasons
        IN  /\ \A i \in DOMAIN rs : KeyOfReason(rs[i]) \in EffectiveKeys(TheCond)
            /\ \A i, j \in DOMAIN rs :
                  i < j => TableRank(KeyOfReason(rs[i])) <= TableRank(KeyOfReason(rs[j]))
            /\ \A k \in EffectiveKeys(TheCond) :
                  \E i \in DOMAIN rs : KeyOfReason(rs[i]) = k
            /\ \A i \in DOMAIN rs :
                  KeyOfReason(rs[i]) \in NumericKeys =>
                      StatesComparison(rs[i], KeyOfReason(rs[i]))

\* the rule with all ten keys is returned with a reason for each, from
\* size_any to features_none
C23_Witness ==
    /\ Called /\ RuleReturned
    /\ TheCond = ComplexCond
    /\ Len(matched[1].reasons) >= 10
    /\ KeyOfReason(matched[1].reasons[1]) = "size_any"
    /\ KeyOfReason(matched[1].reasons[5]) = "max_area_sqm"
    /\ KeyOfReason(matched[1].reasons[Len(matched[1].reasons)]) = "features_none"

-----------------------------------------------------------------------------
(* Frame properties of the call, checked under Spec.                       *)

\* C24: a call of match_requirements, whether it returns or raises, leaves
\* the profile and the catalog (its length, the order of its rules, every
\* field and condition object) as they were
C24_InputsNotModified ==
    [][pc = "call" /\ pc' # "call" => business' = business /\ rules' = rules]_vars

\* a call on a catalog of two rules that are not in sorted order returned
\* them sorted
C24_Witness ==
    /\ pc = "returned"
    /\ Len(rules) = 2 /\ Len(matched) = 2
    /\ rules[1].priority = "Low" /\ rules[2].priority = "High"
    /\ matched[1].priority = "High"

-----------------------------------------------------------------------------
(* Properties of concurrent calls, checked under SpecConcurrent.           *)

\* call c has ended
Ended(c) == calls[c].pc \in {"returned", "raised"}

\* C25: however the steps of the calls are interleaved, each call ends as it
\* does when it runs alone on the same profile and catalog: with the same
\* sequence, or the same error
C25_ConcurrentCallsIndependent ==
    \A c \in Callers :
        Ended(c) =>
            LET alone == match_requirements(calls[c].business, rules)
            IN  /\ calls[c].error = alone.error
                /\ calls[c].items = alone.items
                /\ calls[c].pc = "returned" <=> alone.error = NoError

\* both calls ended on a catalog of two rules, one with both rules and the
\* other, for a business without seats, with one
C25_Witness ==
    /\ \A c \in Callers : calls[c].pc = "returned"
    /\ Len(rules) = 2
    /\ Len(calls[1].items) = 2
    /\ Len(calls[2].items) = 1
    /\ calls[1].business # calls[2].business

-----------------------------------------------------------------------------
(* Properties of the output as a whole, checked under SpecFields.          *)

\* the positions of the catalog whose rule holds for the profile
Matching == {i \in DOMAIN rules : Holds(rules[i])}

\* item x carries the id, category and priority of rule r, and its
\* description without the surrounding blanks
Carries(x, r) ==
    /\ "id" \in DOMAIN r => x.id = r.id
    /\ "category" \in DOMAIN r => x.category = r.category
    /\ "priority" \in DOMAIN r => x.priority = r.priority
    /\ "description" \in DOMAIN r => IsStripOf(x.description, r.description)

\* C26: the sequence returned is a permutation of the rules that hold: one
\* item for each position of the catalog whose rule holds (a rule that
\* occurs twice and holds gives two items), none for the others, each item
\* with the rule's id, category and priority and its stripped description
C26_ExactlyTheMatchedRules ==
    (Called /\ pc = "returned") =>
        \E f \in [DOMAIN matched -> Matching] :
            /\ \A i, j \in DOMAIN matched : f[i] = f[j] => i = j
            /\ \A m \in Matching : \E j \in DOMAIN matched : f[j] = m
            /\ \A j \in DOMAIN matched : Carries(matched[j], rules[f[j]])

\* a complete rule with a padded description occurs twice in the catalog and
\* is returned twice
C26_Witness ==
    /\ Called /\ pc = "returned"
    /\ Len(rules) = 2 /\ rules[1] = rules[2]
    /\ DOMAIN rules[1] = {"id", "title", "category", "description", "priority", "conditions"}
    /\ Len(matched) = 2
    /\ matched[1].description = <<"a">>

-----------------------------------------------------------------------------
(* Properties of the order of the output, checked under SpecTies.          *)

\* the positions of the catalog whose rule is returned when it is alone
Returned == {i \in DOMAIN rules : Alone(rules[i]).items # <<>>}

\* two items tie in the sort key
SameKey(x, y) ==
    x.priority = y.priority /\ x.category = y.category /\ x.title = y.title

\* f assigns to every position of the output the position of its rule
IsOrigin(f) ==
    /\ \A i, j \in DOMAIN matched : f[i] = f[j] => i = j
    /\ \A m \in Returned : \E j \in DOMAIN matched : f[j] = m
    /\ \A j \in DOMAIN matched : matched[j] = Alone(rules[f[j]]).items[1]

\* C27: matched rules with the same priority, category and title (after the
\* title fallback and strip) keep their relative order of the catalog,
\* whatever their ids
C27_TieBreakByCatalogOrder ==
    (Called /\ pc = "returned") =>
        \E f \in [DOMAIN matched -> Returned] :
            /\ IsOrigin(f)
            /\ \A i, j \in DOMAIN matched :
                  (i < j /\ SameKey(matched[i], matched[j])) => f[i] < f[j]

\* r2 before r1 in the catalog, with titles that tie after the strip: r2 is
\* returned first
C27_Witness ==
    /\ Called /\ pc = "returned"
    /\ Len(rules) = 2
    /\ rules[1].id = <<"r2">> /\ rules[1].title = <<" ", "a">>
    /\ rules[2].id = <<"r1">> /\ rules[2].title = <<"a">>
    /\ rules[1].priority = rules[2].priority
    /\ Len(matched) = 2
    /\ matched[1].id = <<"r2">> /\ matched[2].id = <<"r1">>

\* the catalogs with the rules of the catalog of the state in another order
Permuted ==
    {[i \in DOMAIN rules |-> rules[p[i]]] :
        p \in {q \in [DOMAIN rules -> DOMAIN rules] :
                  \A i, j \in DOMAIN rules : q[i] = q[j] => i = j}}

\* no two items of the output tie in the sort key
NoTies ==
    \A i, j \in DOMAIN matched : SameKey(matched[i], matched[j]) => i = j

-----------------------------------------------------------------------------
(* Monotonicity of the condition object, checked under SpecEval.           *)

\* C29: a recognized key with an effective value only restricts: a rule that
\* is returned for a profile is also returned for it without that key, and
\* the rule with the empty condition object is returned for every profile
C29_ConditionsOnlyRestrict ==
    Called =>
        /\ \A k \in EffectiveKeys(TheCond) :
              RuleReturned =>
                  /\ OutcomeFor(WithoutKey(k))[1] = "returned"
                  /\ Len(OutcomeFor(WithoutKey(k))[2]) = 1
        /\ DOMAIN TheCond = {} => RuleReturned

\* a business without seats is returned the rule for small businesses, and
\* not the same rule with min_seats: 1 added
C29_Witness ==
    /\ Called
    /\ DOMAIN TheCond = {"size_any", "min_seats"}
    /\ TheCond.size_any = JList(<<"small">>)
    /\ TheCond.min_seats = JInt(1)
    /\ business.size = "small" /\ business.seats = 0
    /\ ~RuleReturned
    /\ OutcomeFor(WithoutKey("min_seats"))[1] = "returned"
    /\ Len(OutcomeFor(WithoutKey("min_seats"))[2]) = 1

-----------------------------------------------------------------------------
(* Report generation, backend/services/report.py.  generate_report reads   *)
(* the provider and the API keys from the environment, asks the selected   *)
(* provider for a text and falls back to the templated report of           *)
(* _generate_mock_report.  The texts are not spelled out: a templated      *)
(* report is the record of what the template is filled with and of the     *)
(* note appended to it, a provider's report is the text it answered.       *)

\* a str value of the environment or of an answer, None when it is absent
EnvStr(s) == [t |-> "str", s |-> s]

\* truth value of an Optional[str]: None and "" are false
TruthyStr(v) == v.t = "str" /\ v.s # <<>>

\* str.lower() on the letters the provider names are written with
LowerChar(c) ==
    CASE c = "G" -> "g"
      [] c = "O" -> "o"
      [] c = "A" -> "a"
      [] c = "I" -> "i"
      [] OTHER   -> c

Lower(s) == [i \in DOMAIN s |-> LowerChar(s[i])]

GeminiName == <<"g", "e", "m", "i", "n", "i">>

OpenAIName == <<"o", "p", "e", "n", "a", "i">>

MockName == <<"m", "o", "c", "k">>

\* (os.getenv("PROVIDER") or "mock").strip().lower()
_get_provider(env) ==
    Lower(Strip(IF TruthyStr(env.PROVIDER) THEN env.PROVIDER.s ELSE MockName))

\* outcomes of a call: an exception leaves it, or a dict is returned
Raises(kind) ==
    [raised |-> TRUE, error |-> kind, report |-> None, metadata |-> None]

Returns(text, metadata) ==
    [raised |-> FALSE, error |-> "none", report |-> text, metadata |-> metadata]

\* the f-string of the template reads business.business_name
HasBusinessName(b) == "business_name" \in DOMAIN b

\* categories[req.category][req.priority] has the keys High, Medium, Low
Groupable(ms) == \A i \in DOMAIN ms : ms[i].priority \in DOMAIN priority_order

\* _generate_mock_report(business, requirements) + note
_generate_mock_report(b, ms, note) ==
    IF ~Groupable(ms) THEN Raises("KeyError")
    ELSE IF ~HasBusinessName(b) THEN Raises("AttributeError")
    ELSE Returns([kind |-> "template", business |-> b, requirements |-> ms,
                  note |-> note, text |-> <<>>], None)

\* {"report": <templated report + note>, "metadata": metadata}
MockAnswer(b, ms, note, metadata) ==
    LET r == _generate_mock_report(b, ms, note)
    IN  IF r.raised THEN r ELSE Returns(r.report, metadata)

\* {"report": text, "metadata": metadata}
LiveAnswer(text, metadata) ==
    Returns([kind |-> "provider", business |-> None, requirements |-> <<>>,
             note |-> "", text |-> text], metadata)

\* build_prompt reads business.business_name as well
PromptRaises(b) == ~HasBusinessName(b)

\* _gemini_extract_text: "" without candidates, else the stripped text
_gemini_extract_text(answer) ==
    IF answer.text.t = "str" THEN Strip(answer.text.s) ELSE <<>>

_gemini_report(b, ms, env) ==
    IF ~TruthyStr(env.GEMINI_API_KEY)
    THEN MockAnswer(b, ms, "",
             [mode |-> "mock", provider |-> "gemini", reason |-> "missing_key"])
    ELSE IF PromptRaises(b) THEN Raises("AttributeError")
    ELSE IF env.answer.raises
    THEN MockAnswer(b, ms, "Gemini exception",
             [mode |-> "mock", provider |-> "gemini", exception |-> TRUE])
    ELSE IF env.answer.status # 200
    THEN MockAnswer(b, ms, "Gemini error",
             [mode |-> "mock", provider |-> "gemini", http |-> env.answer.status])
    ELSE IF _gemini_extract_text(env.answer) = <<>>
    THEN MockAnswer(b, ms, "Gemini returned empty content.",
             [mode |-> "mock", provider |-> "gemini", http |-> 200])
    ELSE LiveAnswer(_gemini_extract_text(env.answer),
             [mode |-> "live", provider |-> "gemini"])

\* client.chat.completions.create raises on a failed request and on a status
\* other than 200; content.strip() raises on a content of None
OpenAIRaises(answer) ==
    answer.raises \/ answer.status # 200 \/ answer.text.t # "str"

_openai_report(b, ms, env) ==
    IF ~TruthyStr(env.OPENAI_API_KEY)
    THEN MockAnswer(b, ms, "",
             [mode |-> "mock", provider |-> "openai", reason |-> "missing_key"])
    ELSE IF PromptRaises(b) THEN Raises("AttributeError")
    ELSE IF OpenAIRaises(env.answer)
    THEN MockAnswer(b, ms, "OpenAI exception",
             [mode |-> "mock", provider |-> "openai", exception |-> TRUE])
    ELSE LiveAnswer(Strip(env.answer.text.s),
             [mode |-> "live", provider |-> "openai", model |-> "gpt-4o-mini"])

generate_report(b, ms, env) ==
    IF _get_provider(env) = GeminiName THEN _gemini_report(b, ms, env)
    ELSE IF _get_provider(env) = OpenAIName THEN _openai_report(b, ms, env)
    ELSE MockAnswer(b, ms, "", [mode |-> "mock", provider |-> "mock"])

\* the values of PROVIDER: unset, empty, and names in several spellings
Providers ==
    {None, EnvStr(<<>>), EnvStr(MockName), EnvStr(GeminiName), EnvStr(OpenAIName),
     EnvStr(<<" ", "G", "e", "m", "i", "n", "i", " ">>),
     EnvStr(<<"O", "p", "e", "n", "A", "I">>), EnvStr(<<"x">>)}

\* the values of GEMINI_API_KEY and OPENAI_API_KEY
Keys == {None, EnvStr(<<>>), EnvStr(<<"k">>)}

\* what the provider does with the request: the request fails, or an answer
\* arrives with a status and, possibly, a text
Answers ==
    [raises : BOOLEAN, status : {200, 500},
     text : {None, EnvStr(<<>>), EnvStr(<<" ">>), EnvStr(<<"a">>), EnvStr(<<" ", "a">>)}]

Environments ==
    [PROVIDER : Providers, GEMINI_API_KEY : Keys, OPENAI_API_KEY : Keys,
     answer : Answers]

\* the profiles BusinessInput builds: models.py declares no business_name
ModelProfiles ==
    {BusinessInput([size |-> "small", seats |-> JInt(n), features |-> f]) :
        n \in {0, MaxCount}, f \in {<<>>, <<"gas">>}}

\* the same profiles with the attribute business_name that report.py reads
NamedProfiles == {[business_name |-> <<"A">>] @@ b : b \in ModelProfiles}

ReportProfiles == ModelProfiles \cup NamedProfiles

\* the lists of matched requirements handed over with the profile
MatchLists ==
    {<<>>, <<WellFormedRule>>,
     <<WellFormedRule, [WellFormedRule EXCEPT !.priority = "High"]>>}

\* generate_report(req.business, req.matches)
GenerateReport ==
    /\ pc = "report"
    /\ report' = [report EXCEPT
                     !.result = generate_report(business, report.matches, report.env)]
    /\ pc' = "reported"
    /\ UNCHANGED <<request, business, rules, matched, error, invalid, seed, calls>>

NextReport == GenerateReport

InitReport ==
    /\ business \in ReportProfiles
    /\ report \in {[env |-> e, matches |-> ms, result |-> None] :
                      e \in Environments, ms \in MatchLists}
    /\ request = None
    /\ rules = <<>>
    /\ pc = "report"
    /\ matched = <<>>
    /\ error = NoError
    /\ invalid = NoInvalid
    /\ seed = <<ReversedOrder>>
    /\ calls = NoCalls

SpecReport == InitReport /\ [][NextReport]_vars

-----------------------------------------------------------------------------
(* C30: report fallback.                                                   *)

\* a profile as BusinessInput of models.py validates and builds it
ValidProfile == business \in ModelProfiles

\* the provider the environment selects
Selected == _get_provider(report.env)

\* PROVIDER is unset or names the mock
UnsetOrMock == report.env.PROVIDER = None \/ Selected = MockName

\* the API key of the selected provider is missing
KeyMissing ==
    \/ Selected = GeminiName /\ ~TruthyStr(report.env.GEMINI_API_KEY)
    \/ Selected = OpenAIName /\ ~TruthyStr(report.env.OPENAI_API_KEY)

\* the text of the answer is empty
EmptyText ==
    report.env.answer.text.t # "str" \/ Strip(report.env.answer.text.s) = <<>>

\* the provider was asked and the call raised, or it answered with a status
\* other than 200 or with an empty text
FailedAnswer ==
    /\ Selected \in {GeminiName, OpenAIName}
    /\ ~KeyMissing
    /\ report.env.answer.raises \/ report.env.answer.status # 200 \/ EmptyText

\* C30: for every valid business profile and every list of matched
\* requirements generate_report returns a report and does not raise; the
\* report is the templated one with metadata mode "mock" when the provider is
\* unset or "mock", when the key of the selected provider is missing, when
\* the provider answers with a status other than 200 or with an empty text and
\* when the call raises; only a successful answer of a provider gives mode
\* "live"
C30_ReportFallback ==
    pc = "reported" /\ ValidProfile =>
        /\ ~report.result.raised
        /\ UnsetOrMock \/ KeyMissing \/ FailedAnswer =>
               /\ report.result.metadata.mode = "mock"
               /\ report.result.report.kind = "template"
        /\ report.result.metadata.mode = "live" =>
               /\ Selected \in {GeminiName, OpenAIName}
               /\ ~KeyMissing
               /\ ~FailedAnswer

\* what the code does for a profile of models.py: every call raises
\* AttributeError, whatever the environment
C30_ModelProfilesRaise ==
    pc = "reported" /\ ValidProfile =>
        report.result.raised /\ report.result.error = "AttributeError"

\* what the code does for a profile that carries business_name: it returns,
\* and the fallback is as stated for Gemini; an empty text of OpenAI is
\* returned as the report with mode "live"
C30_NamedProfilesFallBack ==
    pc = "reported" /\ ~ValidProfile =>
        /\ ~report.result.raised
        /\ UnsetOrMock \/ KeyMissing \/ (FailedAnswer /\ Selected = GeminiName) =>
               /\ report.result.metadata.mode = "mock"
               /\ report.result.report.kind = "template"
        /\ Selected = OpenAIName /\ ~KeyMissing /\ ~OpenAIRaises(report.env.answer) =>
               report.result.metadata.mode = "live"

\* a call with PROVIDER unset and a profile of models.py has ended
C30_UnsetProviderCall ==
    pc = "reported" /\ ValidProfile /\ report.env.PROVIDER = None

\* OpenAI answered a profile that carries business_name with an empty text
C30_OpenAIEmptyText ==
    /\ pc = "reported" /\ ~ValidProfile
    /\ Selected = OpenAIName /\ ~KeyMissing
    /\ ~OpenAIRaises(report.env.answer) /\ EmptyText
    /\ report.result.metadata.mode = "live"
    /\ report.result.report.text = <<>>

====
